---- MODULE Spec2Model ----
(***************************************************************************)
(* github3.events: the Event decoder (Event._update_attributes), the       *)
(* payload handlers and the registry _payload_handlers that dispatches an  *)
(* event type to its handler.                                              *)
(*                                                                         *)
(* Python values are records tagged by "kind".  A str is the sequence of   *)
(* its characters, a dict is a function from its keys, an object carries   *)
(* its class and the json it was built from.  A call is a record           *)
(* [exc, ret, arg]: the exception it raised ("" when it returned), the     *)
(* value it returned, and the argument object as the call left it (the     *)
(* handlers assign into the mapping they are given).                       *)
(***************************************************************************)
EXTENDS Integers, Sequences, FiniteSets, TLC

VARIABLES
    event,    \* the caller's raw event mapping (decode works on this object)
    input,    \* history: the raw event mapping as the caller built it
    events,   \* outcomes of the Event(event) calls made so far, in order
    types,    \* result of the last Event.list_types() call, Unset before it
    targ,     \* dispatcher call: the event type given
    parg,     \* dispatcher call: the payload given, as the caller built it
    tcall     \* dispatcher call: its outcome, NoCall before it

vars == << event, input, events, types, targ, parg, tcall >>

---------------------------------------------------------------------------
(* Bounds *)

\* Event(event) calls made on one raw mapping.
MaxCalls == 2
\* Characters of a repo "name".
MaxNameLen == 3
\* Keys of a payload mapping.
MaxPayloadKeys == 3

---------------------------------------------------------------------------
(* Python values *)

None == [kind |-> "None"]
Unset == [kind |-> "unset"]
Str(chars) == [kind |-> "str", s |-> chars]
Dict(items) == [kind |-> "dict", items |-> items]
Tuple(elems) == [kind |-> "tuple", elems |-> elems]
Bool(b) == [kind |-> "bool", b |-> b]
Object(cls, json) == [kind |-> "object", cls |-> cls, json |-> json]

EmptyItems == [k \in {} |-> None]

\* bool(v)
Truthy(v) ==
    CASE v.kind = "None" -> FALSE
      [] v.kind = "str" -> Len(v.s) > 0
      [] v.kind = "dict" -> DOMAIN v.items # {}
      [] v.kind = "tuple" -> Len(v.elems) > 0
      [] v.kind = "bool" -> v.b
      [] OTHER -> TRUE

\* d.get(key), d a dict
Get(d, key) == IF key \in DOMAIN d.items THEN d.items[key] ELSE None

\* d[key] = value, d a dict
SetItem(d, key, value) ==
    Dict([k \in DOMAIN d.items \cup {key} |-> IF k = key THEN value ELSE d.items[k]])

Returned(value, arg) == [exc |-> "", ret |-> value, arg |-> arg]
Raised(exc, arg) == [exc |-> exc, ret |-> None, arg |-> arg]

---------------------------------------------------------------------------
(* Collaborators outside this file *)

\* Cls(json, None): the entity constructors read json with json.get(...).
New(cls, json) ==
    IF json.kind = "dict"
    THEN Returned(Object(cls, json), json)
    ELSE Raised("AttributeError", json)

\* self._strptime(time_str): no value for an absent time string.
_strptime(time_str) ==
    IF time_str.kind = "str" THEN Object("datetime", time_str) ELSE None

---------------------------------------------------------------------------
(* Payload handlers *)

\* One "if payload.get(key): payload[key] = Cls(payload[key], None)" statement,
\* run on the state st = [exc, obj] the statements before it left.
Promote(st, key, cls) ==
    IF st.exc # "" THEN st
    ELSE IF st.obj.kind # "dict" THEN [exc |-> "AttributeError", obj |-> st.obj]
    ELSE IF ~Truthy(Get(st.obj, key)) THEN st
    ELSE LET made == New(cls, st.obj.items[key])
         IN  IF made.exc # ""
             THEN [exc |-> made.exc, obj |-> st.obj]
             ELSE [exc |-> "", obj |-> SetItem(st.obj, key, made.ret)]

Enter(payload) == [exc |-> "", obj |-> payload]

\* "return payload"
Leave(st) == IF st.exc # "" THEN Raised(st.exc, st.obj) ELSE Returned(st.obj, st.obj)

_commitcomment(payload) ==
    Leave(Promote(Enter(payload), "comment", "RepoComment"))

_follow(payload) ==
    Leave(Promote(Enter(payload), "target", "User"))

\* Mutant of _forkev: "if 'forkee' in payload" in place of the truth test.
_forkev_unguarded(payload) ==
    IF payload.kind = "dict" /\ "forkee" \in DOMAIN payload.items
    THEN LET made == New("Repository", payload.items["forkee"])
         IN  IF made.exc # ""
             THEN Raised(made.exc, payload)
             ELSE Returned(SetItem(payload, "forkee", made.ret),
                           SetItem(payload, "forkee", made.ret))
    ELSE Leave(Promote(Enter(payload), "forkee", "Repository"))

_forkev(payload) ==
    Leave(Promote(Enter(payload), "forkee", "Repository"))

_gist(payload) ==
    Leave(Promote(Enter(payload), "gist", "Gist"))

_issuecomm(payload) ==
    Leave(Promote(Promote(Enter(payload), "issue", "Issue"), "comment", "IssueComment"))

_issueevent(payload) ==
    Leave(Promote(Enter(payload), "issue", "Issue"))

_member(payload) ==
    Leave(Promote(Enter(payload), "member", "User"))

_pullreqev(payload) ==
    Leave(Promote(Enter(payload), "pull_request", "PullRequest"))

_pullreqcomm(payload) ==
    Leave(Promote(Promote(Enter(payload), "pull_request", "PullRequest"),
                  "comment", "ReviewComment"))

_release(payload) ==
    Leave(Promote(Enter(payload), "release", "Release"))

\* Mutant of _team: the repository is stored under 'repository'.
_team_renamed(payload) ==
    LET st == Promote(Promote(Enter(payload), "team", "Team"), "user", "User")
    IN  IF st.exc = "" /\ Truthy(Get(st.obj, "repo"))
        THEN Leave([st EXCEPT !.obj = SetItem(st.obj, "repository",
                                              Object("Repository", st.obj.items["repo"]))])
        ELSE Leave(st)

_team(payload) ==
    Leave(Promote(Promote(Promote(Enter(payload), "team", "Team"),
                          "repo", "Repository"),
                  "user", "User"))

\* Mutant of identity: "return x or {}".
identity_or_empty(x) ==
    IF Truthy(x) THEN Returned(x, x) ELSE Returned(Dict(EmptyItems), x)

identity(x) == Returned(x, x)

\* Mutant of the PublicEvent handler: lambda x: x.
_public_passthrough(x) == Returned(x, x)

\* lambda x: ''
_public(x) == Returned(Str(<< >>), x)

---------------------------------------------------------------------------
(* The registry *)

\* The event-type names, as str values
CommitCommentEvent == << "C", "o", "m", "m", "i", "t", "C", "o", "m", "m", "e", "n", "t", "E", "v", "e", "n", "t" >>
CreateEvent == << "C", "r", "e", "a", "t", "e", "E", "v", "e", "n", "t" >>
DeleteEvent == << "D", "e", "l", "e", "t", "e", "E", "v", "e", "n", "t" >>
FollowEvent == << "F", "o", "l", "l", "o", "w", "E", "v", "e", "n", "t" >>
ForkEvent == << "F", "o", "r", "k", "E", "v", "e", "n", "t" >>
ForkApplyEvent == << "F", "o", "r", "k", "A", "p", "p", "l", "y", "E", "v", "e", "n", "t" >>
GistEvent == << "G", "i", "s", "t", "E", "v", "e", "n", "t" >>
GollumEvent == << "G", "o", "l", "l", "u", "m", "E", "v", "e", "n", "t" >>
IssueCommentEvent == << "I", "s", "s", "u", "e", "C", "o", "m", "m", "e", "n", "t", "E", "v", "e", "n", "t" >>
IssuesEvent == << "I", "s", "s", "u", "e", "s", "E", "v", "e", "n", "t" >>
MemberEvent == << "M", "e", "m", "b", "e", "r", "E", "v", "e", "n", "t" >>
PublicEvent == << "P", "u", "b", "l", "i", "c", "E", "v", "e", "n", "t" >>
PullRequestEvent == << "P", "u", "l", "l", "R", "e", "q", "u", "e", "s", "t", "E", "v", "e", "n", "t" >>
PullRequestReviewCommentEvent == << "P", "u", "l", "l", "R", "e", "q", "u", "e", "s", "t", "R", "e", "v", "i", "e", "w", "C", "o", "m", "m", "e", "n", "t", "E", "v", "e", "n", "t" >>
PushEvent == << "P", "u", "s", "h", "E", "v", "e", "n", "t" >>
ReleaseEvent == << "R", "e", "l", "e", "a", "s", "e", "E", "v", "e", "n", "t" >>
StatusEvent == << "S", "t", "a", "t", "u", "s", "E", "v", "e", "n", "t" >>
TeamAddEvent == << "T", "e", "a", "m", "A", "d", "d", "E", "v", "e", "n", "t" >>
WatchEvent == << "W", "a", "t", "c", "h", "E", "v", "e", "n", "t" >>

_payload_handlers ==
    << [key |-> CommitCommentEvent, fn |-> "_commitcomment"],
       [key |-> CreateEvent, fn |-> "identity"],
       [key |-> DeleteEvent, fn |-> "identity"],
       [key |-> FollowEvent, fn |-> "_follow"],
       [key |-> ForkEvent, fn |-> "_forkev"],
       [key |-> ForkApplyEvent, fn |-> "identity"],
       [key |-> GistEvent, fn |-> "_gist"],
       [key |-> GollumEvent, fn |-> "identity"],
       [key |-> IssueCommentEvent, fn |-> "_issuecomm"],
       [key |-> IssuesEvent, fn |-> "_issueevent"],
       [key |-> MemberEvent, fn |-> "_member"],
       [key |-> PublicEvent, fn |-> "_public"],
       [key |-> PullRequestEvent, fn |-> "_pullreqev"],
       [key |-> PullRequestReviewCommentEvent, fn |-> "_pullreqcomm"],
       [key |-> PushEvent, fn |-> "identity"],
       [key |-> ReleaseEvent, fn |-> "_release"],
       [key |-> StatusEvent, fn |-> "identity"],
       [key |-> TeamAddEvent, fn |-> "_team"],
       [key |-> WatchEvent, fn |-> "identity"] >>

\* handler(x): the call of the function the registry names
Apply(fn, x) ==
    CASE fn = "_commitcomment" -> _commitcomment(x)
      [] fn = "_follow" -> _follow(x)
      [] fn = "_forkev" -> _forkev(x)
      [] fn = "_gist" -> _gist(x)
      [] fn = "_issuecomm" -> _issuecomm(x)
      [] fn = "_issueevent" -> _issueevent(x)
      [] fn = "_member" -> _member(x)
      [] fn = "_public" -> _public(x)
      [] fn = "_pullreqcomm" -> _pullreqcomm(x)
      [] fn = "_pullreqev" -> _pullreqev(x)
      [] fn = "_release" -> _release(x)
      [] fn = "_team" -> _team(x)
      [] fn = "identity" -> identity(x)

\* key in _payload_handlers
InRegistry(type) ==
    \E i \in DOMAIN _payload_handlers : Str(_payload_handlers[i].key) = type

\* hash(v) is defined: not for a dict, nor for a tuple that holds one
RECURSIVE Hashable(_)
Hashable(v) ==
    CASE v.kind = "dict" -> FALSE
      [] v.kind = "tuple" -> \A i \in DOMAIN v.elems : Hashable(v.elems[i])
      [] OTHER -> TRUE

\* No handler bound: the lookup has not been reached.
NoHandler == [exc |-> "", fn |-> "", default |-> FALSE]

\* _payload_handlers.get(type, identity): the lookup hashes its key
handlers_get(type) ==
    IF ~Hashable(type) THEN [exc |-> "TypeError", fn |-> "", default |-> FALSE]
    ELSE IF InRegistry(type)
    THEN LET i == CHOOSE j \in DOMAIN _payload_handlers :
                      Str(_payload_handlers[j].key) = type
         IN  [exc |-> "", fn |-> _payload_handlers[i].fn, default |-> FALSE]
    ELSE [exc |-> "", fn |-> "identity", default |-> TRUE]

\* The payload dispatcher: look the handler up and call it.
transform(eventType, rawPayload) ==
    LET handler == handlers_get(eventType)
    IN  IF handler.exc # "" THEN Raised(handler.exc, rawPayload)
        ELSE Apply(handler.fn, rawPayload)

---------------------------------------------------------------------------
(* str ordering, sorted(), str.split() *)

\* ord(c), for the characters that occur in the model
ord(c) ==
    CASE c = "/" -> 47
      [] c = "A" -> 65
      [] c = "C" -> 67
      [] c = "D" -> 68
      [] c = "E" -> 69
      [] c = "F" -> 70
      [] c = "G" -> 71
      [] c = "I" -> 73
      [] c = "M" -> 77
      [] c = "P" -> 80
      [] c = "R" -> 82
      [] c = "S" -> 83
      [] c = "T" -> 84
      [] c = "W" -> 87
      [] c = "a" -> 97
      [] c = "b" -> 98
      [] c = "c" -> 99
      [] c = "d" -> 100
      [] c = "e" -> 101
      [] c = "h" -> 104
      [] c = "i" -> 105
      [] c = "k" -> 107
      [] c = "l" -> 108
      [] c = "m" -> 109
      [] c = "n" -> 110
      [] c = "o" -> 111
      [] c = "p" -> 112
      [] c = "q" -> 113
      [] c = "r" -> 114
      [] c = "s" -> 115
      [] c = "t" -> 116
      [] c = "u" -> 117
      [] c = "v" -> 118
      [] c = "w" -> 119
      [] c = "y" -> 121

\* a < b on str: by code point, a proper prefix first
RECURSIVE StrLess(_, _)
StrLess(a, b) ==
    IF a = << >> THEN b # << >>
    ELSE IF b = << >> THEN FALSE
    ELSE IF ord(Head(a)) < ord(Head(b)) THEN TRUE
    ELSE IF ord(Head(a)) > ord(Head(b)) THEN FALSE
    ELSE StrLess(Tail(a), Tail(b))

\* x put into the ascending list xs, after the elements not greater than it
RECURSIVE Insert(_, _)
Insert(x, xs) ==
    IF xs = << >> THEN << x >>
    ELSE IF StrLess(x, Head(xs)) THEN << x >> \o xs
    ELSE << Head(xs) >> \o Insert(x, Tail(xs))

\* sorted(xs) on a list of str
RECURSIVE sorted(_)
sorted(xs) ==
    IF xs = << >> THEN << >>
    ELSE Insert(xs[Len(xs)], sorted(SubSeq(xs, 1, Len(xs) - 1)))

\* _payload_handlers.keys(), in the order of the dict literal
keys == [i \in DOMAIN _payload_handlers |-> _payload_handlers[i].key]

\* Mutant of list_types: the keys as the dict gives them, not sorted.
list_types_unsorted == keys

\* Event.list_types()
list_types == sorted(keys)

\* Mutant of split: s.split(sep, 1).
split_once(s, sep) ==
    IF \A i \in DOMAIN s : s[i] # sep THEN << s >>
    ELSE LET i == CHOOSE j \in DOMAIN s :
                      s[j] = sep /\ \A k \in 1..(j - 1) : s[k] # sep
         IN  << SubSeq(s, 1, i - 1), SubSeq(s, i + 1, Len(s)) >>

\* s.split(sep), sep one character
RECURSIVE split(_, _)
split(s, sep) ==
    IF \A i \in DOMAIN s : s[i] # sep THEN << s >>
    ELSE LET i == CHOOSE j \in DOMAIN s :
                      s[j] = sep /\ \A k \in 1..(j - 1) : s[k] # sep
         IN  << SubSeq(s, 1, i - 1) >> \o split(SubSeq(s, i + 1, Len(s)), sep)

---------------------------------------------------------------------------
(* Event._update_attributes *)

EventFields == {"actor", "created_at", "id", "org", "type", "payload", "repo", "public"}

\* The Event object before any attribute is assigned.
NewSelf == [f \in EventFields |-> Unset]

\* "self.<field> = <call>", run on the state st the statements before it left:
\* nothing once an exception is on its way, the exception if the call raises.
Assign(st, field, call) ==
    IF st.exc # "" THEN st
    ELSE IF call.exc # "" THEN [st EXCEPT !.exc = call.exc]
    ELSE [st EXCEPT !.self[field] = call.ret]

\* Cls(event.get(key)) if event.get(key) else None
Optional(ev, key, cls) ==
    IF Truthy(Get(ev, key)) THEN New(cls, Get(ev, key)) ELSE Returned(None, None)

\* tuple(self.repo['name'].split('/'))
RepoTuple(repo) ==
    IF repo.kind # "dict" THEN Raised("TypeError", repo)
    ELSE IF "name" \notin DOMAIN repo.items THEN Raised("KeyError", repo)
    ELSE IF repo.items["name"].kind # "str" THEN Raised("AttributeError", repo)
    ELSE LET parts == split(repo.items["name"].s, "/")
         IN  Returned(Tuple([i \in DOMAIN parts |-> Str(parts[i])]), repo)

\* The state after the body of _update_attributes: the exception raised (if
\* any), the attributes assigned until then, the handler looked up, and the
\* event mapping as the handler left it.
_update_attributes(ev) ==
    LET s0 == [exc |-> "", self |-> NewSelf, event |-> ev, handler |-> NoHandler]
        s1 == Assign(s0, "actor", Optional(ev, "actor", "User"))
        s2 == Assign(s1, "created_at", Returned(_strptime(Get(ev, "created_at")), None))
        s3 == Assign(s2, "id", Returned(Get(ev, "id"), None))
        s3n == Assign(s3, "org", Returned(None, None))
        s4 == IF s3n.exc # "" \/ ~Truthy(Get(ev, "org")) THEN s3n
              ELSE Assign(s3n, "org", New("Organization", Get(ev, "org")))
        s5 == Assign(s4, "type", Returned(Get(ev, "type"), None))
        found == handlers_get(Get(ev, "type"))
        s5h == IF s5.exc # "" THEN s5
               ELSE IF found.exc # "" THEN [s5 EXCEPT !.exc = found.exc]
               ELSE [s5 EXCEPT !.handler = found]
        pcall == Apply(s5h.handler.fn, Get(ev, "payload"))
        left == IF "payload" \in DOMAIN ev.items
                THEN SetItem(ev, "payload", pcall.arg)
                ELSE ev
        s6 == IF s5h.exc # "" THEN s5h
              ELSE Assign([s5h EXCEPT !.event = left], "payload", pcall)
        s7 == Assign(s6, "repo", Returned(Get(ev, "repo"), None))
        s8 == IF s7.exc # "" \/ Get(ev, "repo") = None THEN s7
              ELSE Assign(s7, "repo", RepoTuple(Get(ev, "repo")))
        s9 == Assign(s8, "public", Returned(Get(ev, "public"), None))
    IN  s9

---------------------------------------------------------------------------
(* Inputs *)

\* A non-empty nested mapping, as the service sends for an entity.
RawMapping == Dict("id" :> Str(<< "1" >>))

\* An event type the registry does not know.
FooEvent == << "F", "o", "o", "E", "v", "e", "n", "t" >>

\* event types given: every registered name, an unregistered one, the empty
\* string, none
TypeInputs ==
    {Str(_payload_handlers[i].key) : i \in DOMAIN _payload_handlers}
        \cup {Str(FooEvent), Str(<< >>), None}

\* The keys some handler reads, and one no handler reads.
PayloadKeys ==
    {"comment", "target", "forkee", "gist", "issue", "member",
     "pull_request", "release", "team", "repo", "user", "extra"}

\* The value a payload key is given: the literal 'x' for the key no handler
\* reads; for the others a non-empty nested mapping, an empty one, or null.
ValueAt(k, shape) ==
    IF k = "extra" THEN Str(<< "x" >>)
    ELSE CASE shape = "filled" -> RawMapping
           [] shape = "empty" -> Dict(EmptyItems)
           [] shape = "null" -> None

\* The payload mappings over the keys K, of at most MaxPayloadKeys keys.
PayloadsOver(K) ==
    UNION { { Dict([k \in S |-> ValueAt(k, IF k = "extra" THEN "filled" ELSE g[k])]) :
                g \in [S \ {"extra"} -> {"filled", "empty", "null"}] } :
            S \in { U \in SUBSET K : Cardinality(U) <= MaxPayloadKeys } }

\* payloads given to the dispatcher: no payload at all, or a mapping
PayloadInputs == {None} \cup PayloadsOver(PayloadKeys)

\* The sequences over the characters 'a' and '/' of at most MaxNameLen characters.
Names == UNION { [1..n -> {"a", "/"}] : n \in 0..MaxNameLen }

\* The "repo" of a raw event: absent (Unset), a mapping without "name", or
\* a mapping with a name.
RepoInputs ==
    {Unset, Dict(EmptyItems)} \cup {Dict("name" :> Str(n)) : n \in Names}

SimpleKeys == {"actor", "created_at", "id", "org", "public"}

SimpleValue(k) ==
    CASE k = "actor" -> RawMapping
      [] k = "org" -> RawMapping
      [] k = "created_at" -> Str(<< "t" >>)
      [] k = "id" -> Str(<< "1" >>)
      [] k = "public" -> Bool(TRUE)

\* The raw event mapping with the simple keys S, and with "type", "payload"
\* and "repo" when they are not Unset.
MkEvent(S, type, payload, repo) ==
    LET given == [k \in {"type", "payload", "repo"} |->
                     CASE k = "type" -> type
                       [] k = "payload" -> payload
                       [] k = "repo" -> repo]
        there == {k \in DOMAIN given : given[k] # Unset}
    IN  Dict([k \in S \cup there |-> IF k \in S THEN SimpleValue(k) ELSE given[k]])

\* The keys of a payload that matter to the handler of a type: those the
\* handler assigns in a payload of that type, and the one no handler reads.
KeysAssigned(type) ==
    {k \in PayloadKeys :
        k = "extra" \/ transform(type, Dict(k :> RawMapping)).arg # Dict(k :> RawMapping)}

TypeOrUnset(t) == IF t = None THEN Unset ELSE t

\* Every subset of the top-level keys missing, with no payload or an empty one.
TopLevelEvents ==
    { MkEvent(S, TypeOrUnset(t), p, r) :
        S \in SUBSET SimpleKeys, t \in TypeInputs,
        p \in {Unset, Dict(EmptyItems)},
        r \in {Unset, Dict(EmptyItems), Dict("name" :> Str(<< "a", "/", "a" >>))} }

\* Every payload over the keys that matter to the type, with every repo.
PayloadEvents ==
    UNION { { MkEvent(SimpleKeys, TypeOrUnset(t), p, r) :
                p \in PayloadsOver(KeysAssigned(t)), r \in RepoInputs } :
            t \in TypeInputs }

RawEvents == TopLevelEvents \cup PayloadEvents

---------------------------------------------------------------------------
(* The decoder: Event(event) and Event.list_types() *)

NoCall == [done |-> FALSE, exc |-> "", ret |-> None, arg |-> None]

Init ==
    /\ event \in RawEvents
    /\ input = event
    /\ events = << >>
    /\ types = Unset
    /\ targ = None
    /\ parg = None
    /\ tcall = NoCall

\* Event(event): the constructor runs _update_attributes on the caller's mapping.
Decode ==
    /\ Len(events) < MaxCalls
    /\ LET st == _update_attributes(event)
       IN  /\ events' = Append(events, [exc |-> st.exc, self |-> st.self,
                                        handler |-> st.handler.fn,
                                        default |-> st.handler.default])
           /\ event' = st.event
    /\ UNCHANGED << input, types, targ, parg, tcall >>

\* Event.list_types()
ListTypes ==
    /\ types' = [kind |-> "list", elems |-> list_types]
    /\ UNCHANGED << event, input, events, targ, parg, tcall >>

Next == Decode \/ ListTypes

Spec == Init /\ [][Next]_vars

---------------------------------------------------------------------------
(* The dispatcher alone: handler = _payload_handlers.get(type, identity);   *)
(* handler(payload)                                                         *)

InitDispatch ==
    /\ targ \in TypeInputs
    /\ parg \in PayloadInputs
    /\ tcall = NoCall
    /\ event = Dict(EmptyItems)
    /\ input = event
    /\ events = << >>
    /\ types = Unset

Transform ==
    /\ ~tcall.done
    /\ LET c == transform(targ, parg)
       IN  tcall' = [done |-> TRUE, exc |-> c.exc, ret |-> c.ret, arg |-> c.arg]
    /\ UNCHANGED << event, input, events, types, targ, parg >>

NextDispatch == Transform

SpecDispatch == InitDispatch /\ [][NextDispatch]_vars

---------------------------------------------------------------------------
(* What the documentation says of the dispatcher *)

\* The 19 event types the documentation registers.
KnownTypes ==
    {Str(CommitCommentEvent), Str(CreateEvent), Str(DeleteEvent), Str(FollowEvent),
     Str(ForkEvent), Str(ForkApplyEvent), Str(GistEvent), Str(GollumEvent),
     Str(IssueCommentEvent), Str(IssuesEvent), Str(MemberEvent), Str(PublicEvent),
     Str(PullRequestEvent), Str(PullRequestReviewCommentEvent), Str(PushEvent),
     Str(ReleaseEvent), Str(StatusEvent), Str(TeamAddEvent), Str(WatchEvent)}

\* The registered types documented as identity.
IdentityTypes ==
    {Str(CreateEvent), Str(DeleteEvent), Str(ForkApplyEvent), Str(GollumEvent),
     Str(PushEvent), Str(StatusEvent), Str(WatchEvent)}

\* The dispatch table of the documentation: the nested keys transformed.
ListedKeys(type) ==
    CASE type = Str(CommitCommentEvent) -> {"comment"}
      [] type = Str(FollowEvent) -> {"target"}
      [] type = Str(ForkEvent) -> {"forkee"}
      [] type = Str(GistEvent) -> {"gist"}
      [] type = Str(IssueCommentEvent) -> {"issue", "comment"}
      [] type = Str(IssuesEvent) -> {"issue"}
      [] type = Str(MemberEvent) -> {"member"}
      [] type = Str(PullRequestEvent) -> {"pull_request"}
      [] type = Str(PullRequestReviewCommentEvent) -> {"pull_request", "comment"}
      [] type = Str(ReleaseEvent) -> {"release"}
      [] type = Str(TeamAddEvent) -> {"team", "repo", "user"}
      [] OTHER -> {}

\* Key k holds the same value, or is as absent, in mapping q as in mapping p.
SameAt(p, q, k) ==
    /\ k \in DOMAIN q.items <=> k \in DOMAIN p.items
    /\ k \in DOMAIN p.items => q.items[k] = p.items[k]

\* Key k of mapping q holds an entity built from the value k has in mapping p.
EntityAt(p, q, k) ==
    /\ k \in DOMAIN p.items
    /\ k \in DOMAIN q.items
    /\ q.items[k].kind = "object"
    /\ q.items[k].json = p.items[k]

\* C1: for a registered type and a payload mapping, the transform replaces a
\* key by an entity exactly when the dispatch table lists the key for the
\* type and the key's value is present and truthy; every other key, a listed
\* key that is absent or falsy included, keeps its value or its absence.
C1_ReplacedIffListedAndTruthy ==
    (tcall.done /\ targ \in KnownTypes /\ parg.kind = "dict") =>
        /\ tcall.exc = ""
        /\ tcall.arg.kind = "dict"
        /\ targ # Str(PublicEvent) => tcall.ret = tcall.arg
        /\ \A k \in PayloadKeys :
              IF k \in ListedKeys(targ) /\ Truthy(Get(parg, k))
              THEN EntityAt(parg, tcall.arg, k)
              ELSE SameAt(parg, tcall.arg, k)

\* C1 witness: IssueCommentEvent with a filled "issue" (replaced) and an
\* empty "comment" (kept).
C1_Witness ==
    /\ tcall.done
    /\ targ = Str(IssueCommentEvent)
    /\ parg.kind = "dict"
    /\ DOMAIN parg.items = {"issue", "comment"}
    /\ parg.items["issue"] = RawMapping
    /\ parg.items["comment"] = Dict(EmptyItems)
    /\ tcall.ret.items["issue"] = Object("Issue", RawMapping)
    /\ tcall.ret.items["comment"] = Dict(EmptyItems)

\* C2: for a type that is not registered (no type at all included) and for
\* the registered identity types, the transform returns the payload it was
\* given, unmodified.
C2_IdentityForUnknownAndIdentityTypes ==
    (tcall.done /\ (targ \notin KnownTypes \/ targ \in IdentityTypes)) =>
        /\ tcall.exc = ""
        /\ tcall.ret = parg
        /\ tcall.arg = parg

\* C2 witness: an unregistered type with a payload whose "comment" is filled.
C2_Witness ==
    /\ tcall.done
    /\ targ = Str(FooEvent)
    /\ parg = Dict("comment" :> RawMapping)
    /\ tcall.ret = parg

\* C3: for a registered type other than PublicEvent and a payload mapping, the
\* result has the key set of the payload, and every key the dispatch table
\* does not list for the type has its original value.
C3_UnlistedKeysAndKeySetKept ==
    (tcall.done /\ targ \in KnownTypes \ {Str(PublicEvent)} /\ parg.kind = "dict") =>
        /\ tcall.exc = ""
        /\ tcall.ret.kind = "dict"
        /\ DOMAIN tcall.ret.items = DOMAIN parg.items
        /\ \A k \in DOMAIN parg.items \ ListedKeys(targ) :
              tcall.ret.items[k] = parg.items[k]

\* C3 witness: IssueCommentEvent with issue, comment and extra: 'x'.
C3_Witness ==
    /\ tcall.done
    /\ targ = Str(IssueCommentEvent)
    /\ parg = Dict("issue" :> RawMapping @@ "comment" :> RawMapping
                       @@ "extra" :> Str(<< "x" >>))
    /\ tcall.ret.items["extra"] = Str(<< "x" >>)
    /\ tcall.ret.items["issue"].kind = "object"
    /\ tcall.ret.items["comment"].kind = "object"

---------------------------------------------------------------------------
(* What the documentation says of the decoder *)

\* The first "/" of s, 0 when there is none.
FirstSlash(s) ==
    IF \E i \in DOMAIN s : s[i] = "/"
    THEN CHOOSE i \in DOMAIN s : s[i] = "/" /\ \A j \in 1..(i - 1) : s[j] # "/"
    ELSE 0

\* The number of "/" in s.
CountSlash(s) == Cardinality({i \in DOMAIN s : s[i] = "/"})

\* The elements of a tuple of str, joined by "/".
RECURSIVE JoinSlash(_)
JoinSlash(elems) ==
    IF Len(elems) = 0 THEN << >>
    ELSE IF Len(elems) = 1 THEN elems[1].s
    ELSE elems[1].s \o << "/" >> \o JoinSlash(Tail(elems))

HasRepoName(ev) ==
    /\ "repo" \in DOMAIN ev.items
    /\ "name" \in DOMAIN ev.items["repo"].items

RepoName(ev) == ev.items["repo"].items["name"].s

\* C4: the payload of an Event of type PublicEvent is the empty string,
\* whatever payload the raw mapping has: none, an empty or a populated one.
C4_PublicEventPayloadEmptyString ==
    \A i \in DOMAIN events :
        events[i].self["type"] = Str(PublicEvent) =>
            events[i].self["payload"] = Str(<< >>)

\* C4 witness: a PublicEvent with a populated payload was decoded.
C4_Witness ==
    /\ Len(events) >= 1
    /\ events[1].exc = ""
    /\ events[1].self["type"] = Str(PublicEvent)
    /\ Get(input, "payload") = Dict("extra" :> Str(<< "x" >>))
    /\ events[1].self["payload"] = Str(<< >>)

\* C5: decoding a raw mapping completes and yields an Event with every
\* attribute assigned, whichever top-level keys are missing.
C5_DecodeNeverFails ==
    Len(events) >= 1 =>
        /\ events[1].exc = ""
        /\ \A f \in EventFields : events[1].self[f] # Unset

\* C6: with no "payload" key the handler is given an empty mapping: the
\* payload of the Event is the empty mapping, the empty string for PublicEvent.
C6_MissingPayloadIsEmptyMapping ==
    (Len(events) >= 1 /\ "payload" \notin DOMAIN input.items) =>
        events[1].self["payload"] =
            IF Get(input, "type") = Str(PublicEvent) THEN Str(<< >>) ELSE Dict(EmptyItems)

\* C7 as documented: the repo of a decoded Event is the pair (name before its
\* first "/", rest of the name after it), and None without a repo field.
C7_RepoSplitAtFirstSlash ==
    \A i \in DOMAIN events :
        events[i].exc = "" =>
            IF "repo" \notin DOMAIN input.items THEN events[i].self["repo"] = None
            ELSE FirstSlash(RepoName(input)) > 0 =>
                    events[i].self["repo"] =
                        Tuple(<< Str(SubSeq(RepoName(input), 1, FirstSlash(RepoName(input)) - 1)),
                                 Str(SubSeq(RepoName(input), FirstSlash(RepoName(input)) + 1,
                                            Len(RepoName(input)))) >>)

\* C7 as amended: the repo of a decoded Event is the tuple of the segments of
\* the name between every two "/": a name with n "/" gives n + 1 elements,
\* none of which contains a "/", that joined by "/" give the name back; so it
\* is a pair exactly when the name has one "/".  Without a repo field the
\* repo is None.
C7_RepoSplitAtEverySlash ==
    \A i \in DOMAIN events :
        events[i].exc = "" =>
            IF "repo" \notin DOMAIN input.items THEN events[i].self["repo"] = None
            ELSE LET repo == events[i].self["repo"]
                 IN  /\ repo.kind = "tuple"
                     /\ Len(repo.elems) = CountSlash(RepoName(input)) + 1
                     /\ \A j \in DOMAIN repo.elems :
                            /\ repo.elems[j].kind = "str"
                            /\ CountSlash(repo.elems[j].s) = 0
                     /\ JoinSlash(repo.elems) = RepoName(input)
                     /\ Len(repo.elems) = 2 <=> CountSlash(RepoName(input)) = 1

\* C7 witness: a name with two "/" was decoded to three elements.
C7_Witness ==
    /\ Len(events) >= 1
    /\ events[1].exc = ""
    /\ HasRepoName(input)
    /\ RepoName(input) = << "a", "/", "/" >>
    /\ events[1].self["repo"] = Tuple(<< Str(<< "a" >>), Str(<< >>), Str(<< >>) >>)

\* C8: decoding the same raw mapping a second time completes and yields the
\* attribute values the first decoding yielded.
C8_DecodeTwiceSame ==
    (Len(events) >= 2 /\ events[1].exc = "") =>
        /\ events[2].exc = ""
        /\ events[2].self = events[1].self

\* C9: the caller's raw mapping, its payload included, holds after any number
\* of decodings the values the caller gave it.
C9_InputUntouched == event = input

\* C10: list_types() returns the 19 registered names, ascending and so
\* without duplicates; the handler of a decoded type comes from the registry
\* rather than from the fallback exactly when the type is in that list.
C10_ListTypesSortedAndComplete ==
    types # Unset =>
        /\ Len(types.elems) = 19
        /\ \A i, j \in DOMAIN types.elems :
              i < j => StrLess(types.elems[i], types.elems[j])
        /\ {Str(types.elems[i]) : i \in DOMAIN types.elems} = KnownTypes
        /\ \A n \in DOMAIN events :
              (events[n].handler # "" /\ ~events[n].default) <=>
                  \E i \in DOMAIN types.elems :
                      events[n].self["type"] = Str(types.elems[i])

\* C10 witness: the list was taken, with ForkApplyEvent before ForkEvent, and
\* an event of a listed type was decoded with its registered handler.
C10_Witness ==
    /\ types # Unset
    /\ \E i, j \in DOMAIN types.elems :
          /\ i < j
          /\ types.elems[i] = ForkApplyEvent
          /\ types.elems[j] = ForkEvent
    /\ Len(events) >= 1
    /\ events[1].self["type"] = Str(ForkApplyEvent)
    /\ events[1].handler = "identity"
    /\ ~events[1].default

====
